---- MODULE Spec2Model ----
(***************************************************************************)
(* A model of the two tools of the repository:                             *)
(*   download_ubuntu_ports.py  (class UbuntuPortsDownloader, the crawler)  *)
(*   split_large_files.py      (class FileSplitter and main, the splitter) *)
(* Strings are TLA+ strings, files are byte sequences, the local           *)
(* filesystem is a function from the paths of the regular files to their   *)
(* contents together with the set of the directories.                      *)
(***************************************************************************)
EXTENDS Integers, Sequences, FiniteSets, TLC

VARIABLES
    fs,         \* local filesystem: path of a regular file |-> its bytes
    dirs,       \* local filesystem: the directories that exist
    dl,         \* the UbuntuPortsDownloader object (its fields)
    call,       \* the method invocation under way: [fn, ...arguments]
    ret,        \* <<>> while the invocation is pending, <<value>> once returned
    dangling,   \* local filesystem: names os.walk lists that os.stat fails on
    argv,       \* split_large_files.py: sys.argv[1:], the integers as int() reads them
    splitter,   \* the FileSplitter object: <<>> before construction, <<fields>> after
    spc,        \* split_large_files.py: where the process is
    todo,       \* scan_and_split: the files os.walk has still to yield
    cur,        \* split_file: its locals while it runs
    orig,       \* the local files as they were when the process started
    hist,       \* what the splitter has done so far (scanned, passed, ok, failed, ops)
    remote,     \* the remote server: URL of a file |-> its bytes
    rver,       \* the number of times the remote content has changed
    clog,       \* the calls of download_file made so far, in DownloadSpec
    cpc,        \* download_ubuntu_ports.py: where the process is
    stack,      \* crawl_and_download: the frames of the recursion, innermost last
    site,       \* the remote server: directory |-> the hrefs of its listing page
    chist,      \* what the crawl has done so far
    faults,     \* the number of requests of the crawl that have gone wrong so far
    runs        \* the runs of the two tools that have ended, in order

cvars == <<remote, rver, clog, cpc, stack, site, chist, faults>>
pvars == <<dl, call, ret, cvars>>
svars == <<argv, splitter, spc, todo, cur, orig, hist>>
vars == <<fs, dirs, dangling, dl, call, ret, argv, splitter, spc, todo, cur, orig, hist,
          remote, rver, clog, cpc, stack, site, chist, faults, runs>>

-----------------------------------------------------------------------------
(* Python's str operations, as far as the two tools use them.              *)

\* An Optional[str]: None, or the string wrapped.
None == <<>>
Some(s) == <<s>>
\* Python truthiness of an Optional[str]: None and "" are falsy.
Truthy(o) == o # None /\ o[1] # ""

\* F applied to the value of v: v is evaluated once, before the application.
Call(F(_), v) == CHOOSE r \in {F(x) : x \in {v}} : TRUE

StartsWith(s, p) == Len(p) <= Len(s) /\ SubSeq(s, 1, Len(p)) = p
EndsWith(s, p) == Len(p) <= Len(s) /\ SubSeq(s, Len(s) - Len(p) + 1, Len(s)) = p

\* s.find(t) + 1: the position of the first occurrence of t in s, 0 if none.
FindIn(a) ==
    LET s == a[1]
        t == a[2]
        hits == {i \in 1..(Len(s) - Len(t) + 1) : SubSeq(s, i, i + Len(t) - 1) = t}
    IN  IF hits = {} THEN 0 ELSE CHOOSE i \in hits : \A j \in hits : i <= j
Find(s, t) == Call(FindIn, <<s, t>>)

\* t in s
In(t, s) == Find(s, t) # 0

\* s.rstrip("/")
RECURSIVE RStripSlash(_)
RStripSlash(s) ==
    IF EndsWith(s, "/") THEN Call(RStripSlash, SubSeq(s, 1, Len(s) - 1)) ELSE s
\* s.rstrip(c), for the one character the code strips
RStrip(s, c) == Call(RStripSlash, s)

\* s.replace(old, new, 1)
Replace1In(a) ==
    LET s == a[1]
        old == a[2]
        new == a[3]
        i == Find(s, old)
    IN  IF i = 0 THEN s
        ELSE SubSeq(s, 1, i - 1) \o new \o SubSeq(s, i + Len(old), Len(s))
Replace1(s, old, new) == Call(Replace1In, <<s, old, new>>)

\* The characters the model's strings are made of, in code-point order.
Alphabet == "-./0123456789:_abcdefghijklmnopqrstuvwxyz"
Ord(c) == CHOOSE i \in 1..Len(Alphabet) : SubSeq(Alphabet, i, i) = c

\* a <= b on Python strings: lexicographic by code point.
RECURSIVE StrLEIn(_)
StrLEIn(ab) ==
    LET a == ab[1]
        b == ab[2]
    IN  IF a = "" THEN TRUE
        ELSE IF b = "" THEN FALSE
        ELSE IF SubSeq(a, 1, 1) = SubSeq(b, 1, 1)
             THEN Call(StrLEIn, <<SubSeq(a, 2, Len(a)), SubSeq(b, 2, Len(b))>>)
             ELSE Ord(SubSeq(a, 1, 1)) < Ord(SubSeq(b, 1, 1))
StrLE(a, b) == Call(StrLEIn, <<a, b>>)

\* os.path.join(a, b) on POSIX
PathJoinOf(ab) ==
    IF StartsWith(ab[2], "/") THEN ab[2]
    ELSE IF ab[1] = "" \/ EndsWith(ab[1], "/") THEN ab[1] \o ab[2]
    ELSE ab[1] \o "/" \o ab[2]
PathJoin(a, b) == Call(PathJoinOf, <<a, b>>)

\* s.split(t, 1)[0]: s up to the first t, all of s if there is none
BeforeIn(a) == IF Find(a[1], a[2]) = 0 THEN a[1] ELSE SubSeq(a[1], 1, Find(a[1], a[2]) - 1)
Before(s, t) == Call(BeforeIn, <<s, t>>)

\* s from the first t on, "" if there is none
FromIn(a) == IF Find(a[1], a[2]) = 0 THEN "" ELSE SubSeq(a[1], Find(a[1], a[2]), Len(a[1]))
From(s, t) == Call(FromIn, <<s, t>>)

\* a URL scheme://netloc/path[?query][#fragment] without its scheme://
AfterScheme(url) == SubSeq(url, Find(url, "://") + 3, Len(url))

\* urlparse(url).path
UrlPathOf(url) == Before(Before(From(AfterScheme(url), "/"), "?"), "#")
UrlPath(url) == Call(UrlPathOf, url)

\* a filesystem with no file; f with the file p removed / written
EmptyFs == [p \in {} |-> <<>>]
Remove(f, p) == [q \in DOMAIN f \ {p} |-> f[q]]
WriteFile(f, p, data) == [q \in DOMAIN f \cup {p} |-> IF q = p THEN data ELSE f[q]]

\* The values of the variables of a process that is not running.
NoFrame == [file_path |-> "", file_size |-> 0, num_chunks |-> 0, chunk_num |-> 0, pos |-> 0]
NoHist == [scanned |-> {}, passed |-> {}, ok |-> {}, failed |-> {}, ops |-> {}]

SplitterIdle ==
    /\ argv = <<>> /\ splitter = <<>> /\ spc = "idle" /\ todo = {}
    /\ cur = NoFrame /\ orig = EmptyFs /\ hist = NoHist

NoCall == [fn |-> ""]
\* the record of a download_file call of the crawl, before there is one
NoLast == [url |-> "", local_path |-> "", depth |-> -1, existed |-> FALSE,
           chunked |-> FALSE, env |-> [head |-> "", get |-> "", cut |-> 0],
           outcome |-> "", fetched |-> FALSE]
NoCrawlHist == [maxFetch |-> -1, maxFile |-> -1, nfile |-> 0, last |-> NoLast,
                tried |-> {}, entered |-> {}, listFailed |-> {}, filtered |-> {},
                stopped |-> <<>>]
CrawlerIdle ==
    /\ remote = EmptyFs /\ rver = 0 /\ clog = <<>> /\ cpc = "idle"
    /\ stack = <<>> /\ site = EmptyFs /\ chist = NoCrawlHist /\ faults = 0

-----------------------------------------------------------------------------
(* UbuntuPortsDownloader: construction and the pure methods.               *)

UbuntuPortsDownloader(base_url, output_dir, start_dir, end_dir) ==
    [base_url         |-> RStrip(base_url, "/"),
     output_dir       |-> output_dir,
     start_dir        |-> start_dir,
     end_dir          |-> end_dir,
     downloaded_count |-> 0,
     failed_count     |-> 0,
     skipped_count    |-> 0]

is_directory(link) == EndsWith(link, "/")

should_process_directory_strict(self, dirname0) ==
    LET dirname == RStrip(dirname0, "/")
        start   == RStrip(self.start_dir[1], "/")
        end     == RStrip(self.end_dir[1], "/")
    IN  IF ~Truthy(self.start_dir) /\ ~Truthy(self.end_dir) THEN TRUE
        ELSE IF Truthy(self.start_dir) /\ ~Truthy(self.end_dir)
             THEN StrLE(start, dirname) /\ start # dirname
        ELSE IF ~Truthy(self.start_dir) /\ Truthy(self.end_dir)
             THEN StrLE(dirname, end)
        ELSE StrLE(start, dirname) /\ start # dirname /\ StrLE(dirname, end)

should_process_directory(self, dirname0) ==
    LET dirname == RStrip(dirname0, "/")
        start   == RStrip(self.start_dir[1], "/")
        end     == RStrip(self.end_dir[1], "/")
    IN  IF ~Truthy(self.start_dir) /\ ~Truthy(self.end_dir) THEN TRUE
        ELSE IF Truthy(self.start_dir) /\ ~Truthy(self.end_dir)
             THEN StrLE(start, dirname)
        ELSE IF ~Truthy(self.start_dir) /\ Truthy(self.end_dir)
             THEN StrLE(dirname, end)
        ELSE StrLE(start, dirname) /\ StrLE(dirname, end)

PoolPrefix == "/ubuntu-ports/pool/universe/"

\* lines 135-139: the path of the URL relative to the pool
RelativePath(parsed_path) ==
    IF StartsWith(parsed_path, PoolPrefix) THEN Replace1(parsed_path, PoolPrefix, "")
    ELSE parsed_path

get_local_path(self, url) == PathJoin(self.output_dir, Call(RelativePath, UrlPath(url)))

-----------------------------------------------------------------------------
(* UbuntuPortsDownloader.download_file                                     *)

\* os.path.dirname
RECURSIVE DirnameOf(_)
DirnameOf(p) ==
    IF p = "" \/ EndsWith(p, "/") THEN RStrip(p, "/")
    ELSE Call(DirnameOf, SubSeq(p, 1, Len(p) - 1))
Dirname(p) == Call(DirnameOf, p)

\* os.makedirs(d, exist_ok=True): d and the ancestors it lacks
MakeDirs(ds, d) ==
    ds \cup {SubSeq(d, 1, i) : i \in {j \in 1..Len(d) : j = Len(d) \/ SubSeq(d, j + 1, j + 1) = "/"}}

\* What the network does to one call: the HEAD request raises, answers without a
\* content-length, or answers with the length of the file; the GET raises before
\* any byte arrives (connection error, timeout, raise_for_status), delivers the
\* file, or breaks off after `cut` bytes have been written.
Envs(content) ==
    {[head |-> h, get |-> g, cut |-> 0] : h \in {"ok", "nolen", "raise"}, g \in {"ok", "raise"}}
    \cup {[head |-> h, get |-> "cut", cut |-> k] :
            h \in {"ok", "nolen", "raise"}, k \in 0..(Len(content) - 1)}

\* lines 93-102: the local file exists and has the size the HEAD reports
\* (mutants: a file that exists counts as complete when the sizes differ;
\* a file whose first chunk exists counts as complete)
AlreadyComplete_chunks(f, local_path, remote_size) ==
    \/ local_path \in DOMAIN f /\ Len(f[local_path]) = remote_size
    \/ (local_path \o ".part001") \in DOMAIN f

AlreadyComplete_ne(f, local_path, remote_size) ==
    local_path \in DOMAIN f /\ Len(f[local_path]) # remote_size

AlreadyComplete(f, local_path, remote_size) ==
    local_path \in DOMAIN f /\ Len(f[local_path]) = remote_size

\* download_file(url, local_path) under env: the counter it increments, its return
\* value, the filesystem it leaves and whether it issued the GET
download_file(f, ds, url, local_path, env) ==
    LET content     == remote[url]
        remote_size == IF env.head = "ok" /\ url \in DOMAIN remote THEN Len(content) ELSE 0
        made        == MakeDirs(ds, Dirname(local_path))
    IN  IF local_path \in DOMAIN f /\ env.head = "raise"
        THEN [outcome |-> "Failed", ret |-> FALSE, fs |-> f, dirs |-> ds,
              probed |-> TRUE, fetched |-> FALSE]
        ELSE IF AlreadyComplete(f, local_path, remote_size)
        THEN [outcome |-> "Skipped", ret |-> TRUE, fs |-> f, dirs |-> ds,
              probed |-> TRUE, fetched |-> FALSE]
        ELSE IF env.get = "raise" \/ url \notin DOMAIN remote
        THEN [outcome |-> "Failed", ret |-> FALSE, fs |-> f, dirs |-> ds,
              probed |-> local_path \in DOMAIN f, fetched |-> TRUE]
        ELSE IF env.get = "cut"
        THEN [outcome |-> "Failed", ret |-> FALSE,
              fs |-> WriteFile(f, local_path, SubSeq(content, 1, env.cut)),
              dirs |-> made,
              probed |-> local_path \in DOMAIN f, fetched |-> TRUE]
        ELSE [outcome |-> "Downloaded", ret |-> TRUE,
              fs |-> WriteFile(f, local_path, content), dirs |-> made,
              probed |-> local_path \in DOMAIN f, fetched |-> TRUE]

\* lines 101, 124, 129: the counter of the outcome
\* (mutants: a failure counted twice; a skip not counted)
Count_twice(self, outcome) ==
    IF outcome = "Downloaded" THEN [self EXCEPT !.downloaded_count = @ + 1]
    ELSE IF outcome = "Skipped" THEN [self EXCEPT !.skipped_count = @ + 1]
    ELSE [self EXCEPT !.failed_count = @ + 2]

Count_noskip(self, outcome) ==
    IF outcome = "Downloaded" THEN [self EXCEPT !.downloaded_count = @ + 1]
    ELSE IF outcome = "Skipped" THEN self
    ELSE [self EXCEPT !.failed_count = @ + 1]

Count(self, outcome) ==
    IF outcome = "Downloaded" THEN [self EXCEPT !.downloaded_count = @ + 1]
    ELSE IF outcome = "Skipped" THEN [self EXCEPT !.skipped_count = @ + 1]
    ELSE [self EXCEPT !.failed_count = @ + 1]

Counts(self) == <<self.downloaded_count, self.skipped_count, self.failed_count>>

\* download_file called directly, at most MaxCalls times, for one URL and its
\* local path; the remote file may change between the calls.
MaxCalls == 3
TheUrl == "https://host/ubuntu-ports/pool/universe/h/f.deb"
RemoteContents == {<<>>, <<1>>, <<1, 2>>, <<3, 4>>}
LocalContents == {<<>>, <<5>>, <<5, 6>>, <<1, 2>>}

DownloadInit ==
    /\ dangling = {} /\ SplitterIdle /\ runs = <<>>
    /\ dl = UbuntuPortsDownloader("https://host/ubuntu-ports/pool/universe", "out", None, None)
    /\ call = [fn |-> "download_file", url |-> TheUrl, local_path |-> get_local_path(dl, TheUrl)]
    /\ ret = <<>>
    /\ \/ fs = EmptyFs /\ dirs = {}
       \/ /\ \E c \in LocalContents : fs = [q \in {call.local_path} |-> c]
          /\ dirs = {"out", "out/h"}
    /\ \E c \in RemoteContents : remote = [u \in {TheUrl} |-> c]
    /\ rver = 0 /\ clog = <<>> /\ cpc = "idle" /\ stack = <<>>
    /\ site = EmptyFs /\ chist = NoCrawlHist /\ faults = 0

DownloadCall ==
    /\ call.fn = "download_file" /\ Len(clog) < MaxCalls
    /\ \E env \in Envs(remote[call.url]) :
        \E r \in {download_file(fs, dirs, call.url, call.local_path, env)} :
            /\ fs' = r.fs /\ dirs' = r.dirs
            /\ dl' = Count(dl, r.outcome)
            /\ ret' = <<r.ret>>
            /\ clog' = Append(clog,
                    [url |-> call.url, local_path |-> call.local_path,
                     existed |-> call.local_path \in DOMAIN fs,
                     env |-> env, outcome |-> r.outcome, fetched |-> r.fetched,
                     rver |-> rver, remote |-> remote[call.url],
                     before |-> Counts(dl), after |-> Counts(dl'),
                     bytes |-> IF call.local_path \in DOMAIN r.fs
                               THEN <<r.fs[call.local_path]>> ELSE <<>>])
    /\ UNCHANGED <<dangling, runs, call, svars, remote, rver, cpc, stack, site, chist, faults>>

\* the file on the server is replaced
RemoteChange ==
    /\ call.fn = "download_file" /\ rver < 1 /\ Len(clog) < MaxCalls
    /\ \E c \in RemoteContents \ {remote[call.url]} :
          remote' = [remote EXCEPT ![call.url] = c]
    /\ rver' = rver + 1
    /\ UNCHANGED <<fs, dirs, dangling, runs, dl, call, ret, svars, clog, cpc, stack, site, chist,
                   faults>>

DownloadNext == DownloadCall \/ RemoteChange

DownloadSpec == DownloadInit /\ [][DownloadNext]_vars

-----------------------------------------------------------------------------
(* UbuntuPortsDownloader.crawl_and_download and start                      *)

MaxDepth == 20
\* At most MaxFaults requests of one crawl go wrong.
MaxFaults == 2
Oks == IF faults < MaxFaults THEN BOOLEAN ELSE {TRUE}
Wrong(b) == IF b THEN 1 ELSE 0

\* scheme://netloc of a URL
OriginOf(url) == SubSeq(url, 1, Find(url, "://") + 2) \o Before(AfterScheme(url), "/")
Origin(url) == Call(OriginOf, url)

\* a path with its empty and "." segments dropped
RECURSIVE NormPathOf(_)
NormPathOf(p) ==
    IF In("//", p) THEN Call(NormPathOf, Replace1(p, "//", "/"))
    ELSE IF In("/./", p) THEN Call(NormPathOf, Replace1(p, "/./", "/"))
    ELSE IF EndsWith(p, "/.") THEN SubSeq(p, 1, Len(p) - 1)
    ELSE p
NormPath(p) == Call(NormPathOf, p)

\* urljoin(base, link) for a base that ends with "/" and a relative link
UrlJoin(base, link) == Origin(base) \o NormPath(UrlPath(base) \o link)

\* the directory of the server a URL names
ServerDir(url) == NormPath(UrlPath(url) \o "/")

\* get_directory_listing, lines 51-56: the hrefs that are kept
RECURSIVE KeepLinks(_)
KeepLinks(hrefs) ==
    IF hrefs = <<>> THEN <<>>
    ELSE LET href == Head(hrefs)
         IN  IF /\ href # "" /\ href \notin {"../", "/", "#"}
                /\ ~StartsWith(href, "http") /\ ~StartsWith(href, "/")
             THEN <<href>> \o KeepLinks(Tail(hrefs))
             ELSE KeepLinks(Tail(hrefs))

\* get_directory_listing(url); ok: the request and the parse succeed
get_directory_listing(url, ok) ==
    IF ok /\ ServerDir(url) \in DOMAIN site THEN KeepLinks(site[ServerDir(url)]) ELSE <<>>

\* line 145
DepthExceeded_late(depth) == depth > MaxDepth + 1

DepthExceeded(depth) == depth > MaxDepth

Max(a, b) == IF a >= b THEN a ELSE b

\* (a mutant: a listing that cannot be fetched ends the whole traversal)
Entered_raise(stk, url, depth, ok) ==
    IF DepthExceeded(depth) THEN stk
    ELSE IF ~ok THEN <<>>
    ELSE LET links == get_directory_listing(url, ok)
         IN  IF links = <<>> THEN stk
             ELSE Append(stk, [url |-> url, links |-> links, i |-> 1, depth |-> depth])

\* crawl_and_download(url, depth), lines 145-156, called with the frames stk
\* below it: the frames once the call has returned at once or reached its loop,
\* and the history once it has fetched the listing. ok: the fetch succeeds.
Entered(stk, url, depth, ok) ==
    IF DepthExceeded(depth) THEN stk
    ELSE LET links == get_directory_listing(url, ok)
         IN  IF links = <<>> THEN stk
             ELSE Append(stk, [url |-> url, links |-> links, i |-> 1, depth |-> depth])

FetchedAt(h, depth) ==
    IF DepthExceeded(depth) THEN h ELSE [h EXCEPT !.maxFetch = Max(@, depth)]

\* the history once crawl_and_download(url, depth) has been called
Called(h, url, depth, ok) ==
    [FetchedAt(h, depth) EXCEPT
        !.entered = @ \cup {url},
        !.listFailed = IF ~DepthExceeded(depth) /\ ~ok THEN @ \cup {url} ELSE @]

\* line 163: the directory entry is left out by the range filter
Filtered_all(self, depth, link) == ~should_process_directory(self, link)

Filtered(self, depth, link) == depth = 0 /\ ~should_process_directory(self, link)

\* start, lines 179-192: the call crawl_and_download(self.base_url)
CrawlStart ==
    /\ cpc = "start"
    /\ cpc' = "crawl"
    /\ \E ok \in Oks :
          /\ stack' = Entered(<<>>, dl.base_url, 0, ok)
          /\ faults' = faults + Wrong(~ok)
          /\ chist' = Called(chist, dl.base_url, 0, ok)
    /\ UNCHANGED <<fs, dirs, dangling, runs, dl, call, ret, svars, remote, rver, clog, site>>

RemoteContent(url) == IF url \in DOMAIN remote THEN remote[url] ELSE <<>>

\* a HEAD that was sent and did not report the size, or a GET that was sent and failed
WentWrong(env, r) ==
    \/ r.probed /\ env.head # "ok"
    \/ r.fetched /\ env.get # "ok"

\* what the call r saw of the network env: the answers to the requests it sent
Seen(env, r) ==
    [head |-> IF r.probed THEN env.head ELSE "",
     get  |-> IF r.fetched THEN env.get ELSE "",
     cut  |-> IF r.fetched /\ env.get = "cut" THEN env.cut ELSE 0]

\* crawl_and_download is at line 158 with an entry left in its listing
AtLoopEntry ==
    /\ cpc = "crawl" /\ stack # <<>>
    /\ stack[Len(stack)].i <= Len(stack[Len(stack)].links)

\* crawl_and_download, lines 158-175: one iteration of the loop over the links
CrawlLink ==
    /\ AtLoopEntry
    /\ \E top \in {stack[Len(stack)]} :
       \E link \in {top.links[top.i]} :
       \E full_url \in {UrlJoin(top.url \o "/", link)} :
       \E advanced \in {[stack EXCEPT ![Len(stack)].i = @ + 1]} :
           IF is_directory(link)
           THEN /\ IF Filtered(dl, top.depth, link)
                   THEN /\ stack' = advanced /\ faults' = faults
                        /\ chist' = [chist EXCEPT !.filtered = @ \cup {<<top.depth, link>>}]
                   ELSE \E ok \in Oks :
                          /\ stack' = Entered(advanced, full_url, top.depth + 1, ok)
                          /\ faults' = faults + Wrong(~ok /\ ~DepthExceeded(top.depth + 1))
                          /\ chist' = Called(chist, full_url, top.depth + 1, ok)
                /\ UNCHANGED <<fs, dirs, dl, call, ret>>
           ELSE \E local_path \in {get_local_path(dl, full_url)} :
                \E env \in Envs(RemoteContent(full_url)) :
                \E r \in {download_file(fs, dirs, full_url, local_path, env)} :
                    /\ WentWrong(env, r) => faults < MaxFaults
                    /\ faults' = faults + Wrong(WentWrong(env, r))
                    /\ fs' = r.fs /\ dirs' = r.dirs
                    /\ dl' = Count(dl, r.outcome)
                    /\ call' = [fn |-> "download_file", url |-> full_url,
                                local_path |-> local_path]
                    /\ ret' = <<r.ret>>
                    /\ stack' = advanced
                    /\ chist' = [chist EXCEPT
                            !.maxFile = Max(@, top.depth),
                            !.nfile = @ + 1,
                            !.tried = @ \cup {full_url},
                            !.last = [url |-> full_url, local_path |-> local_path,
                                      depth |-> top.depth,
                                      existed |-> local_path \in DOMAIN fs,
                                      chunked |-> \E q \in DOMAIN fs :
                                                    StartsWith(q, local_path \o ".part"),
                                      env |-> Seen(env, r), outcome |-> r.outcome,
                                      fetched |-> r.fetched]]
    /\ UNCHANGED <<dangling, runs, svars, remote, rver, clog, cpc, site>>

\* crawl_and_download: the loop is over, the call returns to its caller
CrawlReturn ==
    /\ cpc = "crawl" /\ stack # <<>>
    /\ stack[Len(stack)].i > Len(stack[Len(stack)].links)
    /\ stack' = SubSeq(stack, 1, Len(stack) - 1)
    /\ UNCHANGED <<fs, dirs, dangling, runs, dl, call, ret, svars, remote, rver, clog, cpc,
                   site, chist, faults>>

\* (a mutant: KeyboardInterrupt is not caught, the process ends without a summary)
CrawlSummary_uncaught ==
    /\ cpc = "crawl" /\ stack = <<>>
    /\ cpc' = "summary"
    /\ UNCHANGED <<fs, dirs, dangling, runs, dl, call, ret, svars, remote, rver, clog, stack,
                   site, chist, faults>>

\* start, lines 193-204: the outermost call has returned or KeyboardInterrupt was
\* caught, the summary is logged
CrawlSummary ==
    /\ cpc \in {"crawl", "interrupted"} /\ stack = <<>>
    /\ cpc' = "summary"
    /\ UNCHANGED <<fs, dirs, dangling, runs, dl, call, ret, svars, remote, rver, clog, stack,
                   site, chist, faults>>

\* KeyboardInterrupt is raised while crawl_and_download runs: in a listing fetch,
\* a HEAD, the courtesy delay or before the GET answers (no file is touched), or
\* in download_file after the local file was opened (lines 116-123: some or all
\* of the bytes are written). It is no Exception: the handlers of lines 59 and
\* 127 let it pass, every frame is left, start catches it at line 193.
CrawlInterrupt ==
    /\ cpc \in {"start", "crawl"}
    /\ \/ UNCHANGED <<fs, dirs>>
       \/ /\ AtLoopEntry
          /\ \E top \in {stack[Len(stack)]} :
             \E link \in {top.links[top.i]} :
             \E full_url \in {UrlJoin(top.url \o "/", link)} :
             \E local_path \in {get_local_path(dl, full_url)} :
             \E env \in Envs(RemoteContent(full_url)) :
             \E r \in {download_file(fs, dirs, full_url, local_path, env)} :
                /\ ~is_directory(link)
                /\ r.fetched /\ env.get # "raise"
                /\ full_url \in DOMAIN remote
                /\ fs' = r.fs /\ dirs' = r.dirs
    /\ stack' = <<>>
    /\ cpc' = "interrupted"
    /\ chist' = [chist EXCEPT !.stopped = <<Counts(dl)>>]
    /\ UNCHANGED <<dangling, runs, dl, call, ret, svars, remote, rver, clog, site, faults>>

\* The servers crawled: a tree of package directories, and a directory whose
\* listing links to itself.
Root == "https://host/ubuntu-ports/pool/universe"
SiteTree ==
    [pages |-> (PoolPrefix :> <<"../", "a/", "h/", "n/", "README">>)
            @@ (PoolPrefix \o "a/" :> <<"../", "a.deb">>)
            @@ (PoolPrefix \o "h/" :> <<"../", "htop/", "h.deb">>)
            @@ (PoolPrefix \o "h/htop/" :> <<"../", "htop_3.0.5.deb">>)
            @@ (PoolPrefix \o "n/" :> <<"../", "n.deb">>),
     files |-> (Root \o "/README" :> <<1>>)
            @@ (Root \o "/a/a.deb" :> <<1, 2>>)
            @@ (Root \o "/h/h.deb" :> <<>>)
            @@ (Root \o "/h/htop/htop_3.0.5.deb" :> <<3, 4>>)
            @@ (Root \o "/n/n.deb" :> <<5>>)]
SiteLoop ==
    [pages |-> (PoolPrefix :> <<"../", "./", "f.deb">>),
     files |-> (Root \o "/f.deb" :> <<1, 2>>)]
Sites == {SiteTree, SiteLoop}

CrawlInit ==
    /\ fs = EmptyFs /\ dirs = {} /\ dangling = {} /\ SplitterIdle /\ runs = <<>>
    /\ \E s \in {None, Some("h")}, e \in {None, Some("hs/")} :
          dl = UbuntuPortsDownloader(Root \o "/", "out", s, e)
    /\ call = NoCall /\ ret = <<>>
    /\ \E s \in Sites : site = s.pages /\ remote = s.files
    /\ rver = 0 /\ clog = <<>> /\ cpc = "start" /\ stack = <<>> /\ chist = NoCrawlHist
    /\ faults = 0

CrawlNext == CrawlStart \/ CrawlLink \/ CrawlReturn \/ CrawlSummary

CrawlSpec == CrawlInit /\ [][CrawlNext]_vars

\* The crawl is one sequential process: it takes its next step as long as it has one.
CrawlFair == CrawlSpec /\ WF_vars(CrawlNext)

\* The crawl with a KeyboardInterrupt that may arrive at any point of it.
InterruptNext == CrawlNext \/ CrawlInterrupt
InterruptSpec == CrawlInit /\ [][InterruptNext]_vars
\* The process goes on running once it has caught the interrupt.
InterruptFair == InterruptSpec /\ WF_vars(CrawlSummary)

-----------------------------------------------------------------------------
(* split_large_files.py                                                    *)

\* The model's megabyte: the number of bytes that stands for 1024 * 1024.
MiB == 2
\* Sizes in MB given on the command line range over 0..MaxMB.
MaxMB == 3
\* The longest file of the initial tree, in bytes.
MaxFileBytes == 8

DefaultBase == "ubuntu_ports_downloads"
DefaultMaxMB == 90
DefaultChunkMB == 85

Min(a, b) == IF a <= b THEN a ELSE b

\* os.path.basename
RECURSIVE BasenameOf(_)
BasenameOf(p) ==
    LET i == Find(p, "/")
    IN  IF i = 0 THEN p ELSE Call(BasenameOf, SubSeq(p, i + 1, Len(p)))
Basename(p) == Call(BasenameOf, p)

\* p lies in the tree rooted at directory base
Under(p, base) == StartsWith(p, RStrip(base, "/") \o "/")

\* f"{n:03d}"
Pad3_unpadded(n) == ToString(n)

Pad3(n) ==
    IF n < 10 THEN "00" \o ToString(n)
    ELSE IF n < 100 THEN "0" \o ToString(n)
    ELSE ToString(n)

\* line 65 (a mutant: a chunk name without the marker the scan looks for)
chunk_filename_nomarker(file_path, chunk_num) == file_path \o ".p" \o Pad3(chunk_num)

chunk_filename(file_path, chunk_num) == file_path \o ".part" \o Pad3(chunk_num)


FileSplitter(base_directory, max_size_mb, chunk_size_mb) ==
    [base_directory   |-> base_directory,
     max_size_bytes   |-> max_size_mb * MiB,
     chunk_size_bytes |-> chunk_size_mb * MiB,
     files_scanned    |-> 0,
     files_split      |-> 0,
     files_failed     |-> 0]

self_ == splitter[1]
\* (a mutant: a counter is incremented a second time by the caller)
Bump_twice(field) == splitter' = <<[self_ EXCEPT ![field] = @ + 2]>>

Bump(field) == splitter' = <<[self_ EXCEPT ![field] = @ + 1]>>
Log(field, x) == hist' = [hist EXCEPT ![field] = @ \cup {x}]

\* main, line 161: the sizes are rejected
InvalidSizes_gt(CHUNK_SIZE_MB, MAX_SIZE_MB) == CHUNK_SIZE_MB > MAX_SIZE_MB

InvalidSizes(CHUNK_SIZE_MB, MAX_SIZE_MB) == CHUNK_SIZE_MB >= MAX_SIZE_MB

ArgBase == IF Len(argv) > 0 THEN argv[1] ELSE DefaultBase
ArgMaxMB == IF Len(argv) > 1 THEN argv[2] ELSE DefaultMaxMB
ArgChunkMB == IF Len(argv) > 2 THEN argv[3] ELSE DefaultChunkMB

\* main up to the call of scan_and_split
Main ==
    /\ spc = "main"
    /\ IF InvalidSizes(ArgChunkMB, ArgMaxMB)
       THEN spc' = "exit1" /\ UNCHANGED splitter
       ELSE /\ splitter' = <<FileSplitter(ArgBase, ArgMaxMB, ArgChunkMB)>>
            /\ spc' = "scan"
    /\ UNCHANGED <<fs, dirs, dangling, runs, pvars, argv, todo, cur, orig, hist>>

\* scan_and_split, lines 92-104: the existence check and the start of os.walk
ScanBegin ==
    /\ spc = "scan"
    /\ IF self_.base_directory \in dirs
       THEN /\ todo' = {p \in DOMAIN fs \cup dangling : Under(p, self_.base_directory)}
            /\ spc' = "walk"
            /\ hist' = [hist EXCEPT !.ops = @ \cup {"exists", "walk"}]
       ELSE /\ spc' = "nodir"
            /\ Log("ops", "exists")
            /\ UNCHANGED todo
    /\ UNCHANGED <<fs, dirs, dangling, runs, pvars, argv, splitter, cur, orig>>

\* line 117
Exceeds_ge(file_size, max_size_bytes) == file_size >= max_size_bytes

Exceeds(file_size, max_size_bytes) == file_size > max_size_bytes

\* line 59
NumChunks_floor(file_size, chunk_size_bytes) == file_size \div chunk_size_bytes

NumChunks(file_size, chunk_size_bytes) ==
    (file_size + chunk_size_bytes - 1) \div chunk_size_bytes

\* One iteration of the loop of lines 105-124, up to the point where split_file
\* has opened the source (line 62). io: whether split_file's open succeeds.
ScanFile ==
    /\ spc = "walk" /\ todo # {}
    /\ \E file_path \in todo, io \in {"ok", "open_fails"} :
        /\ todo' = todo \ {file_path}
        /\ IF In(".part", Basename(file_path))
           THEN UNCHANGED <<splitter, spc, cur, hist>>
           ELSE IF file_path \notin DOMAIN fs
           THEN \* os.path.getsize raises: lines 122-124
                /\ splitter' = <<[self_ EXCEPT !.files_scanned = @ + 1,
                                               !.files_failed = @ + 1]>>
                /\ hist' = [hist EXCEPT !.scanned = @ \cup {file_path},
                                        !.ops = @ \cup {"getsize"}]
                /\ UNCHANGED <<spc, cur>>
           ELSE IF ~Exceeds(Len(fs[file_path]), self_.max_size_bytes)
           THEN /\ Bump("files_scanned")
                /\ hist' = [hist EXCEPT !.scanned = @ \cup {file_path},
                                        !.ops = @ \cup {"getsize"}]
                /\ UNCHANGED <<spc, cur>>
           ELSE \* split_file(file_path), lines 52-62
                IF self_.chunk_size_bytes = 0 \/ io = "open_fails"
                THEN \* ZeroDivisionError at line 59, or open raises: lines 85-88
                     /\ splitter' = <<[self_ EXCEPT !.files_scanned = @ + 1,
                                                    !.files_failed = @ + 1]>>
                     /\ hist' = [hist EXCEPT !.scanned = @ \cup {file_path},
                                             !.passed = @ \cup {file_path},
                                             !.failed = @ \cup {file_path},
                                             !.ops = @ \cup {"getsize"}]
                     /\ UNCHANGED <<spc, cur>>
                ELSE /\ Bump("files_scanned")
                     /\ hist' = [hist EXCEPT !.scanned = @ \cup {file_path},
                                             !.passed = @ \cup {file_path},
                                             !.ops = @ \cup {"getsize", "open"}]
                     /\ cur' = [file_path  |-> file_path,
                                file_size  |-> Len(fs[file_path]),
                                num_chunks |-> NumChunks(Len(fs[file_path]),
                                                         self_.chunk_size_bytes),
                                chunk_num  |-> 1,
                                pos        |-> 0]
                     /\ spc' = "split"
    /\ UNCHANGED <<fs, dirs, dangling, runs, pvars, argv, orig>>

\* split_file, lines 63-75: one iteration of the loop over the chunks
SplitChunk ==
    /\ spc = "split" /\ cur.chunk_num <= cur.num_chunks
    /\ LET name == chunk_filename(cur.file_path, cur.chunk_num)
           src  == fs[cur.file_path]
           chunk_data == SubSeq(src, cur.pos + 1,
                                Min(cur.pos + self_.chunk_size_bytes, Len(src)))
       IN  /\ fs' = WriteFile(fs, name, chunk_data)
           /\ cur' = [cur EXCEPT !.chunk_num = @ + 1, !.pos = @ + Len(chunk_data)]
           /\ hist' = [hist EXCEPT !.ops = @ \cup {"read", "create"}]
    /\ UNCHANGED <<dirs, dangling, runs, pvars, argv, splitter, spc, todo, orig>>

\* The filesystem after an exception in split_file: the handler of lines 85-88
\* touches no file.
AfterSplitError(f, file_path) == f

\* split_file, lines 68-72 raising: the read fails (no chunk file), or the chunk
\* file is created and the write fails after `written` bytes; then lines 85-88
SplitChunkFails ==
    /\ spc = "split" /\ cur.chunk_num <= cur.num_chunks
    /\ LET name == chunk_filename(cur.file_path, cur.chunk_num)
           src  == fs[cur.file_path]
           chunk_data == SubSeq(src, cur.pos + 1,
                                Min(cur.pos + self_.chunk_size_bytes, Len(src)))
       IN  \/ /\ fs' = AfterSplitError(fs, cur.file_path)
              /\ hist' = [hist EXCEPT !.failed = @ \cup {cur.file_path},
                                      !.ops = @ \cup {"read"}]
           \/ \E written \in 0..(Len(chunk_data) - 1) :
                /\ fs' = AfterSplitError(
                            WriteFile(fs, name, SubSeq(chunk_data, 1, written)),
                            cur.file_path)
                /\ hist' = [hist EXCEPT !.failed = @ \cup {cur.file_path},
                                        !.ops = @ \cup {"read", "create"}]
    /\ Bump("files_failed")
    /\ spc' = "walk" /\ cur' = NoFrame
    /\ UNCHANGED <<dirs, dangling, runs, pvars, argv, todo, orig>>

\* (the removal one chunk early)
SplitRemove_early ==
    /\ spc = "split" /\ cur.chunk_num >= cur.num_chunks
    /\ fs' = Remove(fs, cur.file_path)
    /\ Bump("files_split")
    /\ hist' = [hist EXCEPT !.ok = @ \cup {cur.file_path},
                            !.ops = @ \cup {"remove"}]
    /\ spc' = "walk" /\ cur' = NoFrame
    /\ UNCHANGED <<dirs, dangling, runs, pvars, argv, todo, orig>>

\* split_file, lines 77-83: the original is removed and the split has succeeded
SplitRemove ==
    /\ spc = "split" /\ cur.chunk_num > cur.num_chunks
    /\ fs' = Remove(fs, cur.file_path)
    /\ Bump("files_split")
    /\ hist' = [hist EXCEPT !.ok = @ \cup {cur.file_path},
                            !.ops = @ \cup {"remove"}]
    /\ spc' = "walk" /\ cur' = NoFrame
    /\ UNCHANGED <<dirs, dangling, runs, pvars, argv, todo, orig>>

\* split_file, line 78 raising (os.remove fails), then lines 85-88
SplitRemoveFails ==
    /\ spc = "split" /\ cur.chunk_num > cur.num_chunks
    /\ fs' = AfterSplitError(fs, cur.file_path)
    /\ Bump("files_failed")
    /\ Log("failed", cur.file_path)
    /\ spc' = "walk" /\ cur' = NoFrame
    /\ UNCHANGED <<dirs, dangling, runs, pvars, argv, todo, orig>>

\* scan_and_split, lines 126-132: os.walk is exhausted, the summary is printed
ScanEnd ==
    /\ spc = "walk" /\ todo = {}
    /\ spc' = "summary"
    /\ UNCHANGED <<fs, dirs, dangling, runs, pvars, argv, splitter, todo, cur, orig, hist>>

\* The trees the splitter is run on: below the directory "d", two files of any
\* size, optionally an oversized file whose name holds ".part" without being a
\* chunk, a chunk file left by an earlier run, and a dangling symbolic link.
Content(n) == [i \in 1..n |-> i]
Garbage == <<9, 9, 9>>
Assign(p, S) == {[q \in {p} |-> Content(n)] : n \in S}
Maybe(p, data) == {EmptyFs, [q \in {p} |-> data]}
Trees ==
    {a @@ b @@ c @@ d :
        a \in Assign("d/big.bin", 0..MaxFileBytes),
        b \in Assign("d/sub/x.deb", 0..MaxFileBytes),
        c \in Maybe("d/a.partial", Content(MaxFileBytes)),
        d \in Maybe("d/big.bin.part003", Garbage)}

Argvs ==
    {<<>>, <<"d">>, <<"nodir">>}
    \cup {<<"d", m>> : m \in 0..MaxMB}
    \cup {<<"d", m, c>> : m \in 0..MaxMB, c \in 0..MaxMB}

SplitInit ==
    /\ fs \in Trees
    /\ dirs = {"d", "d/sub"}
    /\ dangling \in {{}, {"d/lnk"}} /\ runs = <<>>
    /\ dl = UbuntuPortsDownloader("", "", None, None) /\ call = NoCall /\ ret = <<>>
    /\ CrawlerIdle
    /\ argv \in Argvs
    /\ splitter = <<>> /\ spc = "main" /\ todo = {} /\ cur = NoFrame
    /\ orig = fs /\ hist = NoHist

SplitNext ==
    \/ Main \/ ScanBegin \/ ScanFile \/ SplitChunk \/ SplitChunkFails
    \/ SplitRemove \/ SplitRemoveFails \/ ScanEnd

SplitSpec == SplitInit /\ [][SplitNext]_vars

\* The splitter is one sequential process: it takes its next step as long as it has one.
SplitFair == SplitSpec /\ WF_vars(SplitNext)

-----------------------------------------------------------------------------
(* The inputs of the pure methods.                                         *)

\* --start-dir / --end-dir: absent, empty, with and without the separator
BoundValues == {None, Some(""), Some("a"), Some("h"), Some("h/"), Some("m"), Some("/")}
\* first-level links as the listing gives them
DirLinks == {"-x/", "a/", "h/", "ha/", "k/", "m/", "m0/", "n/", "h//"}

\* remote roots (--url), output roots (--output) and paths below the root
RootUrls == {"https://host/ubuntu-ports/pool/universe",
             "https://host/ubuntu-ports/pool/universe/",
             "https://host/pool/universe",
             "https://ports.ubuntu.com/ubuntu-ports/pool/universe",
             "https://ports.ubuntu.com/ubuntu-ports/pool/main"}
OutputDirs == {"out", "out/", "ubuntu_ports_downloads"}
RelPaths == {"f.deb", "h/f.deb", "h/htop/htop_3.0.5.deb",
             "a/ubuntu-ports/pool/universe/x.deb", "liba/a_1.0.dsc"}

\* should_process_directory applied to a first-level link
FilterInit ==
    /\ fs = EmptyFs /\ dirs = {} /\ dangling = {} /\ runs = <<>>
    /\ SplitterIdle /\ CrawlerIdle
    /\ \E s \in BoundValues, e \in BoundValues :
          dl = UbuntuPortsDownloader("https://host/ubuntu-ports/pool/universe", "out", s, e)
    /\ \E d \in DirLinks : call = [fn |-> "should_process_directory", dirname |-> d]
    /\ ret = <<>>

FilterApply ==
    /\ call.fn = "should_process_directory" /\ ret = <<>>
    /\ ret' = <<should_process_directory(dl, call.dirname)>>
    /\ UNCHANGED <<fs, dirs, dangling, runs, dl, call, svars, cvars>>

FilterSpec == FilterInit /\ [][FilterApply]_vars

\* get_local_path applied to the URL of a file p below the crawler's root
PathInit ==
    /\ fs = EmptyFs /\ dirs = {} /\ dangling = {} /\ runs = <<>>
    /\ SplitterIdle /\ CrawlerIdle
    /\ \E r \in RootUrls, o \in OutputDirs :
          dl = UbuntuPortsDownloader(r, o, None, None)
    /\ \E p \in RelPaths :
          call = [fn |-> "get_local_path", p |-> p, url |-> dl.base_url \o "/" \o p]
    /\ ret = <<>>

PathApply ==
    /\ call.fn = "get_local_path" /\ ret = <<>>
    /\ ret' = <<get_local_path(dl, call.url)>>
    /\ UNCHANGED <<fs, dirs, dangling, runs, dl, call, svars, cvars>>

PathSpec == PathInit /\ [][PathApply]_vars

-----------------------------------------------------------------------------
(* The two tools run one after the other on the same directory: the        *)
(* crawler mirrors the server into "out", the splitter splits below "out". *)

\* At most MaxRuns runs have ended when another one is started.
MaxRuns == 2

\* the server mirrored: one directory with one file larger than the largest
\* maximum size the splitter is given
BigFile == Content(3 * MiB + 1)
SitePipe ==
    [pages |-> (PoolPrefix :> <<"../", "h/">>)
            @@ (PoolPrefix \o "h/" :> <<"../", "big.deb">>),
     files |-> (Root \o "/h/big.deb" :> BigFile)]

\* the command lines of the splitter: one maximum size, two chunk sizes
PipeArgvs == {<<"out", 3, 1>>, <<"out", 3, 2>>}

\* no process of either tool is running
NoProcess ==
    /\ cpc \in {"idle", "summary"}
    /\ spc \in {"idle", "summary", "exit1", "nodir"}

\* the runs that have ended, once the process that ran last is gone
Ended ==
    IF cpc = "summary"
    THEN Append(runs, [tool |-> "crawl", argv |-> <<>>, ok |-> {}, failed |-> {},
                       end |-> cpc])
    ELSE IF spc # "idle"
    THEN Append(runs, [tool |-> "split", argv |-> argv, ok |-> hist.ok,
                       failed |-> hist.failed, end |-> spc])
    ELSE runs

\* python download_ubuntu_ports.py --output out
RunCrawl ==
    /\ NoProcess /\ Len(runs) < MaxRuns
    /\ runs' = Ended
    /\ dl' = UbuntuPortsDownloader(Root, "out", None, None)
    /\ call' = NoCall /\ ret' = <<>>
    /\ cpc' = "start" /\ stack' = <<>> /\ chist' = NoCrawlHist
    /\ argv' = <<>> /\ splitter' = <<>> /\ spc' = "idle" /\ todo' = {}
    /\ cur' = NoFrame /\ orig' = EmptyFs /\ hist' = NoHist
    /\ UNCHANGED <<fs, dirs, dangling, remote, rver, clog, site, faults>>

\* python split_large_files.py out <max> <chunk>
RunSplit ==
    /\ NoProcess /\ Len(runs) < MaxRuns
    /\ runs' = Ended
    /\ cpc' = "idle" /\ stack' = <<>> /\ chist' = NoCrawlHist
    /\ call' = NoCall /\ ret' = <<>>
    /\ \E a \in PipeArgvs : argv' = a
    /\ splitter' = <<>> /\ spc' = "main" /\ todo' = {}
    /\ cur' = NoFrame /\ orig' = fs /\ hist' = NoHist
    /\ UNCHANGED <<fs, dirs, dangling, dl, remote, rver, clog, site, faults>>

RunsInit ==
    /\ fs = EmptyFs /\ dirs = {} /\ dangling = {} /\ runs = <<>>
    /\ SplitterIdle
    /\ dl = UbuntuPortsDownloader(Root, "out", None, None)
    /\ call = NoCall /\ ret = <<>>
    /\ site = SitePipe.pages /\ remote = SitePipe.files
    /\ rver = 0 /\ clog = <<>> /\ cpc = "idle" /\ stack = <<>> /\ chist = NoCrawlHist
    \* the server answers every request of these runs
    /\ faults = MaxFaults

RunsNext == RunCrawl \/ RunSplit \/ CrawlNext \/ SplitNext

RunsSpec == RunsInit /\ [][RunsNext]_vars

-----------------------------------------------------------------------------
(* What the claims about the splitter speak of.                            *)

\* the chunk files of source p present in filesystem f
ChunksOf(f, p) == {q \in DOMAIN f : StartsWith(q, p \o ".part")}
\* ceil(S / C) for C >= 1
CeilDiv(S, C) == CHOOSE n \in 0..S : n * C >= S /\ (n - 1) * C < S
\* the chunk suffixes, written out
PartNames == <<"001", "002", "003", "004", "005", "006", "007", "008", "009">>
PartPath(p, n) == p \o ".part" \o PartNames[n]
\* the contents of the chunks 1..n of p, concatenated in sequence order
RECURSIVE Concat(_, _, _)
Concat(f, p, n) == IF n = 0 THEN <<>> ELSE Concat(f, p, n - 1) \o f[PartPath(p, n)]
\* the chunks 1..n of p are all present in f and concatenate to data
Reassembles(f, p, n, data) ==
    /\ \A i \in 1..n : PartPath(p, i) \in DOMAIN f
    /\ Concat(f, p, n) = data
\* p is named <x>.partNNN, as the splitter names its chunks
IsDigits(t) == \A i \in 1..Len(t) : SubSeq(t, i, i) \in
                  {"0", "1", "2", "3", "4", "5", "6", "7", "8", "9"}
IsChunkName(p) ==
    \E i \in 1..(Len(p) - 7) :
        /\ SubSeq(p, i, i + 4) = ".part"
        /\ IsDigits(SubSeq(p, i + 5, Len(p)))

(* C1: a split_file that returned True for a file of S > 0 bytes, in a     *)
(* directory that held no chunk file of it, has left exactly the chunk     *)
(* files <source>.part001 .. .partNNN with N = ceil(S / chunk size), whose *)
(* contents concatenated in sequence order are the original bytes, and the *)
(* original file no longer exists.                                         *)
C1_ChunkRoundTrip ==
    \A p \in hist.ok :
        (Len(orig[p]) > 0 /\ ChunksOf(orig, p) = {}) =>
            LET N == CeilDiv(Len(orig[p]), self_.chunk_size_bytes)
            IN  /\ ChunksOf(fs, p) = {PartPath(p, i) : i \in 1..N}
                /\ Concat(fs, p, N) = orig[p]
                /\ p \notin DOMAIN fs

\* a file whose last chunk is shorter than the others has been split
C1_Witness ==
    /\ "d/sub/x.deb" \in hist.ok
    /\ Len(orig["d/sub/x.deb"]) = 7 /\ self_.chunk_size_bytes = 2
    /\ Len(fs["d/sub/x.deb.part004"]) = 1

(* C2: the original is removed only after every one of its chunks has been *)
(* written (whenever it is gone, its chunks are all there and reproduce    *)
(* it), and after a split_file that returned False the original still      *)
(* exists with unchanged contents.                                         *)
C2_DeleteAfterWrite ==
    \A p \in DOMAIN orig :
        /\ p \notin DOMAIN fs =>
              Reassembles(fs, p, CeilDiv(Len(orig[p]), self_.chunk_size_bytes), orig[p])
        /\ p \in hist.failed => (p \in DOMAIN fs /\ fs[p] = orig[p])

\* a write failed after the first chunks were written: they stay, as does the original
C2_Witness ==
    /\ "d/big.bin" \in hist.failed
    /\ "d/big.bin.part002" \in DOMAIN fs
    /\ "d/big.bin" \in DOMAIN fs

(* C7: a scanned file is passed to split_file iff its size is strictly     *)
(* greater than maxSize: one of exactly maxSize bytes is not split and is  *)
(* left untouched, one of maxSize + 1 bytes is split.                      *)
C7_Threshold ==
    \A p \in hist.scanned \cap DOMAIN orig :
        /\ (p \in hist.passed) <=> (Len(orig[p]) > self_.max_size_bytes)
        /\ p \notin hist.passed => (p \in DOMAIN fs /\ fs[p] = orig[p])

\* one file of exactly maxSize left alone, one of maxSize + 1 passed to split_file
C7_Witness ==
    /\ splitter # <<>>
    /\ {"d/big.bin", "d/sub/x.deb"} \subseteq hist.scanned
    /\ Len(orig["d/big.bin"]) = self_.max_size_bytes
    /\ "d/big.bin" \notin hist.passed
    /\ Len(orig["d/sub/x.deb"]) = self_.max_size_bytes + 1
    /\ "d/sub/x.deb" \in hist.passed

(* C8: after a scan_and_split in which no split failed, every regular file *)
(* under the base directory that is not a chunk of the splitter and whose  *)
(* size exceeded maxSize has been replaced by its chunk files.             *)
C8_Completeness ==
    (spc = "summary" /\ hist.failed = {}) =>
        \A p \in DOMAIN orig :
            ( /\ Under(p, self_.base_directory)
              /\ ~IsChunkName(p)
              /\ Len(orig[p]) > self_.max_size_bytes ) =>
                /\ p \notin DOMAIN fs
                /\ Reassembles(fs, p, CeilDiv(Len(orig[p]), self_.chunk_size_bytes),
                               orig[p])

(* C9: the splitter invoked with chunkSize >= maxSize reports the          *)
(* configuration error and scans nothing: no FileSplitter counts a file,   *)
(* no filesystem operation is made and no file is created or deleted.      *)
C9_PreconditionRejection ==
    (spc # "main" /\ ArgChunkMB >= ArgMaxMB) =>
        /\ spc = "exit1"
        /\ splitter = <<>>
        /\ hist = NoHist /\ todo = {}
        /\ fs = orig

\* chunk size equal to max size, on a tree that holds an oversized file
C9_Witness ==
    /\ spc = "exit1" /\ argv = <<"d", 1, 1>>
    /\ Len(fs["d/big.bin"]) = 3

(* C18: when split_file fails for a file, files_failed grows by exactly 1  *)
(* and files_split does not change, the scan goes on with the files that   *)
(* os.walk has still to yield, every file of the tree that is not named as *)
(* a chunk is scanned by the time of the summary, and the summary is       *)
(* eventually printed.                                                     *)
C18_SplitFailureIsolation ==
    /\ [][ hist'.failed # hist.failed =>
              /\ splitter'[1].files_failed = self_.files_failed + 1
              /\ splitter'[1].files_split = self_.files_split
              /\ spc' = "walk"
              /\ todo \ hist'.failed \subseteq todo' ]_vars
    /\ [](spc = "summary" =>
            hist.scanned = {p \in DOMAIN orig \cup dangling :
                              Under(p, self_.base_directory) /\ ~In(".part", Basename(p))})
    /\ (hist.failed # {}) ~> (spc = "summary")

\* the split of one file failed after its first chunk, the other file was split
C18_Witness ==
    /\ spc = "summary"
    /\ hist.failed = {"d/big.bin"} /\ hist.ok = {"d/sub/x.deb"}
    /\ self_.files_failed = 1 /\ self_.files_split = 1 /\ self_.files_scanned = 2
    /\ "d/big.bin.part001" \in DOMAIN fs /\ "d/big.bin" \in DOMAIN fs

\* the run that ended last was a scan_and_split that reached its summary
LastRun == runs[Len(runs)]
AfterSplitRun == Len(runs) > 0 /\ LastRun.tool = "split" /\ LastRun.end = "summary"
\* the marker occurs a second time after its first occurrence
DoubleMarker(q) ==
    Find(q, ".part") # 0 /\ In(".part", SubSeq(q, Find(q, ".part") + 5, Len(q)))

(* C16: whenever the latest split of a path succeeded, whatever runs of    *)
(* the crawler and the splitter came before, the chunk files on disk for   *)
(* that path are exactly those numbered 1..ceil(S/C), and concatenated in  *)
(* order they are the bytes of the file that was split.                    *)
C16_ChunkInvariant ==
    \A p \in hist.ok :
        LET N == CeilDiv(Len(orig[p]), self_.chunk_size_bytes)
        IN  /\ ChunksOf(fs, p) = {PartPath(p, i) : i \in 1..N}
            /\ Concat(fs, p, N) = orig[p]

(* C17: the files the splitter creates have at most chunkSize bytes and a  *)
(* name that holds the chunk marker; a scan_and_split that follows one     *)
(* that ended without a failure, with the same maximum size, passes no     *)
(* file to split_file and leaves the tree as it was; no file with a second *)
(* chunk marker in its name (<x>.partNNN.partMMM) ever exists.             *)
C17_NoResplit ==
    /\ splitter # <<>> =>
          \A q \in DOMAIN fs :
              (q \notin DOMAIN orig \/ fs[q] # orig[q]) =>
                  /\ In(".part", Basename(q))
                  /\ Len(fs[q]) <= self_.chunk_size_bytes
    /\ ( /\ AfterSplitRun /\ LastRun.failed = {}
         /\ splitter # <<>> /\ LastRun.argv[2] = argv[2] ) =>
            /\ hist.passed = {} /\ self_.files_split = 0
            /\ fs = orig
    /\ \A q \in DOMAIN fs : ~DoubleMarker(q)

\* the first run split the mirrored file, the second run has ended: it found only chunks
C17_Witness ==
    /\ AfterSplitRun /\ LastRun.ok = {"out/h/big.deb"} /\ LastRun.failed = {}
    /\ spc = "summary" /\ argv = LastRun.argv
    /\ self_.files_scanned = 0 /\ self_.files_split = 0
    /\ "out/h/big.deb.part001" \in DOMAIN fs /\ "out/h/big.deb" \notin DOMAIN fs

(* C20: in a crawl that follows a split run which replaced a mirrored file *)
(* by its chunks, download_file finds no file at the original path (only   *)
(* the chunks), is not Skipped but sends the GET, and when the transfer    *)
(* succeeds the outcome is Downloaded and the whole original is on disk    *)
(* again next to its chunks.                                               *)
C20_CrawlAfterSplit ==
    (AfterSplitRun /\ chist.last.local_path \in LastRun.ok) =>
        /\ ~chist.last.existed /\ chist.last.chunked
        /\ chist.last.outcome # "Skipped" /\ chist.last.fetched
        /\ chist.last.env.get = "ok" =>
              /\ chist.last.outcome = "Downloaded"
              /\ dl.downloaded_count = 1
              /\ fs[chist.last.local_path] = remote[chist.last.url]
              /\ ChunksOf(fs, chist.last.local_path) # {}

\* crawl, split, crawl: the file is back in full, its chunks are still there
C20_Witness ==
    /\ cpc = "summary" /\ AfterSplitRun /\ LastRun.ok = {"out/h/big.deb"}
    /\ Counts(dl) = <<1, 0, 0>>
    /\ fs["out/h/big.deb"] = BigFile
    /\ "out/h/big.deb.part002" \in DOMAIN fs

-----------------------------------------------------------------------------
(* C3: two calls of download_file in a row for the same URL and local      *)
(* path, the remote unchanged between them, the first one's transfer and   *)
(* the second one's size probe succeeding: the first is Downloaded         *)
(* (downloaded_count + 1), the second is Skipped (skipped_count + 1)       *)
(* without a body fetch, and the local bytes are the same after both (the  *)
(* remote file's).                                                         *)
C3_IdempotentRerun ==
    \A i \in 1..(Len(clog) - 1) :
        LET a == clog[i]
            b == clog[i + 1]
        IN  ( /\ a.url = b.url /\ a.local_path = b.local_path
              /\ a.rver = b.rver
              /\ a.fetched /\ a.env.get = "ok"
              /\ b.env.head = "ok" ) =>
                /\ a.outcome = "Downloaded"
                /\ a.after = <<a.before[1] + 1, a.before[2], a.before[3]>>
                /\ b.outcome = "Skipped" /\ ~b.fetched
                /\ b.after = <<b.before[1], b.before[2] + 1, b.before[3]>>
                /\ a.bytes = <<a.remote>> /\ b.bytes = a.bytes

\* a fresh download of a two-byte file, then the re-run
C3_Witness ==
    /\ Len(clog) >= 2
    /\ ~clog[1].existed /\ clog[1].outcome = "Downloaded"
    /\ clog[2].outcome = "Skipped" /\ clog[2].bytes = <<(<<1, 2>>)>>
    /\ rver = 0

(* C6: when the local file exists and the HEAD request fails or reports no *)
(* content length, download_file still performs the full transfer, and the *)
(* outcome is Downloaded if that transfer succeeds.                        *)
C6_ProbeFallback ==
    \A i \in 1..Len(clog) :
        LET c == clog[i]
        IN  (c.existed /\ c.env.head \in {"raise", "nolen"}) =>
                /\ c.fetched
                /\ c.env.get = "ok" => c.outcome = "Downloaded"

(* C14: after a call whose transfer broke off once the local file was      *)
(* open, leaving a file shorter than the remote one, the next call for the *)
(* same path with the remote unchanged is not Skipped: it fetches the file *)
(* again, and if it is Downloaded the local bytes are the remote bytes.    *)
C14_PartialNotComplete ==
    \A i \in 1..(Len(clog) - 1) :
        LET a == clog[i]
            b == clog[i + 1]
        IN  ( /\ a.url = b.url /\ a.local_path = b.local_path
              /\ a.rver = b.rver
              /\ a.fetched /\ a.env.get = "cut"
              /\ Len(a.bytes[1]) < Len(a.remote) ) =>
                /\ b.outcome # "Skipped"
                /\ b.fetched
                /\ b.outcome = "Downloaded" => b.bytes = <<b.remote>>

(* C10: on every listing graph, also one with a directory whose listing    *)
(* links to itself, crawl_and_download terminates (the summary is          *)
(* reached), and no listing is fetched and no file is downloaded at a      *)
(* recursion depth greater than the cap of 20.                             *)
C10_DepthBound ==
    /\ <>(cpc = "summary")
    /\ [](chist.maxFetch <= 20 /\ chist.maxFile <= 20 /\ Len(stack) <= 21)

\* the self-linking directory has been followed down to depth 20 and the run is over
C10_Witness ==
    /\ cpc = "summary"
    /\ site = SiteLoop.pages
    /\ chist.maxFetch = 20 /\ chist.maxFile = 20

-----------------------------------------------------------------------------
(* What the claims about the crawl speak of.                               *)

\* the first-level directory entry a file URL lies under, if any
FirstLevel(url) ==
    LET rel == SubSeq(url, Len(dl.base_url) + 2, Len(url))
    IN  IF In("/", rel) THEN <<Before(rel, "/") \o "/">> ELSE <<>>
\* the files of the server that lie directly under the root or under a
\* first-level directory that the range filter accepts
ExpectedFiles ==
    {u \in DOMAIN remote :
        FirstLevel(u) = <<>> \/ should_process_directory(dl, FirstLevel(u)[1])}
\* the step is an iteration of the loop of crawl_and_download
AtLink == AtLoopEntry
\* the frames when the loop has moved on to its next entry
NextEntry == [stack EXCEPT ![Len(stack)].i = @ + 1]
\* the step is a call of download_file
FileStep == chist'.nfile = chist.nfile + 1

(* C11: a file whose transfer fails (the GET raises, or breaks off while   *)
(* the file is written) adds exactly 1 to failed_count and leaves          *)
(* downloaded_count and skipped_count alone, and the loop goes on with the *)
(* next entry, all enclosing frames kept; when the crawl is over and no    *)
(* listing failed, every file in scope has been attempted.                 *)
C11_FileFailureIsolation ==
    /\ [][ (FileStep /\ chist'.last.fetched /\ chist'.last.env.get # "ok") =>
              /\ Counts(dl') = <<dl.downloaded_count, dl.skipped_count, dl.failed_count + 1>>
              /\ stack' = NextEntry
              /\ cpc' = "crawl" ]_vars
    /\ []((cpc = "summary" /\ chist.listFailed = {}) => chist.tried = ExpectedFiles)

\* two transfers failed, one of them in a subdirectory; the entries after them
\* in the same and in the enclosing listing were downloaded
C11_Witness ==
    /\ cpc = "summary" /\ site = SiteTree.pages
    /\ dl.start_dir = None /\ dl.end_dir = None
    /\ Counts(dl) = <<3, 0, 2>> /\ chist.listFailed = {}
    /\ "out/h/htop/htop_3.0.5.deb" \notin DOMAIN fs
    /\ "out/h/h.deb" \in DOMAIN fs /\ "out/n/n.deb" \in DOMAIN fs
    /\ chist.tried = DOMAIN remote

(* C12: when the listing of a directory cannot be fetched or parsed, no    *)
(* counter changes, nothing is raised (the crawl stays in its loop), no    *)
(* frame is entered for that directory (its subtree is skipped) and the    *)
(* parent's loop goes on with the next sibling; when the crawl is over,    *)
(* every file in scope that is not below a failed listing has been         *)
(* attempted.                                                              *)
C12_ListingFailureIsolation ==
    /\ [][ (faults' = faults + 1 /\ ~FileStep) =>
              /\ Counts(dl') = Counts(dl)
              /\ cpc' = "crawl"
              /\ stack' = IF cpc = "start" THEN <<>> ELSE NextEntry ]_vars
    /\ [](cpc = "summary" =>
            \A u \in ExpectedFiles :
                (\A d \in chist.listFailed : ~StartsWith(u, d)) => u \in chist.tried)

\* the listing of h/ failed: nothing below it was fetched, its siblings were
C12_Witness ==
    /\ cpc = "summary" /\ site = SiteTree.pages
    /\ dl.start_dir = None /\ dl.end_dir = None
    /\ chist.listFailed = {Root \o "/h/"}
    /\ Counts(dl) = <<3, 0, 0>>
    /\ DOMAIN fs = {"out/README", "out/a/a.deb", "out/n/n.deb"}

(* C15: the range filter leaves out entries at depth 0 only; at depth >= 1 *)
(* crawl_and_download is called for every directory entry, and at every    *)
(* depth download_file is called for every file entry; so when the crawl   *)
(* is over and no listing failed, every file below an accepted first-level *)
(* directory (and every file directly under the root) has been attempted.  *)
C15_FilterDepthZeroOnly ==
    /\ [](\A e \in chist.filtered : e[1] = 0)
    /\ [][ AtLink =>
              LET top  == stack[Len(stack)]
                  link == top.links[top.i]
                  full_url == UrlJoin(top.url \o "/", link)
              IN  IF is_directory(link)
                  THEN top.depth >= 1 =>
                          /\ chist'.entered = chist.entered \cup {full_url}
                          /\ chist'.filtered = chist.filtered
                  ELSE FileStep /\ chist'.last.url = full_url ]_vars
    /\ []((cpc = "summary" /\ chist.listFailed = {}) =>
            \A u \in DOMAIN remote :
                (FirstLevel(u) # <<>> /\ <<0, FirstLevel(u)[1]>> \notin chist.filtered)
                    => u \in chist.tried)

\* h/ is accepted by the range h..hs; below it htop/, which is outside the
\* range, has been crawled and its file downloaded
C15_Witness ==
    /\ cpc = "summary" /\ site = SiteTree.pages
    /\ dl.start_dir = Some("h") /\ dl.end_dir = Some("hs/")
    /\ ~should_process_directory(dl, "htop/")
    /\ chist.filtered = {<<0, "a/">>, <<0, "n/">>}
    /\ "out/h/htop/htop_3.0.5.deb" \in DOMAIN fs
    /\ "out/README" \in DOMAIN fs

(* C13: when KeyboardInterrupt arrives at any point of the crawl (in a      *)
(* listing fetch, a HEAD, a transfer or the delay), no listing is fetched  *)
(* and no file is transferred afterwards, the summary is eventually        *)
(* emitted, and the counters it reports are those at the interruption.     *)
C13_InterruptionSummary ==
    /\ (cpc = "interrupted") ~> (cpc = "summary")
    /\ [][ chist.stopped # <<>> =>
              /\ chist' = chist /\ dl' = dl /\ fs' = fs /\ stack' = stack
              /\ cpc' = "summary" ]_vars
    /\ []((cpc = "summary" /\ chist.stopped # <<>>) => Counts(dl) = chist.stopped[1])

\* interrupted while the second file was being written, after one download:
\* the summary reports the one download, the half-written file is on disk
C13_Witness ==
    /\ cpc = "summary" /\ site = SiteTree.pages
    /\ chist.stopped = <<(<<1, 0, 0>>)>> /\ Counts(dl) = <<1, 0, 0>>
    /\ chist.nfile = 1
    /\ DOMAIN fs = {"out/a/a.deb", "out/h/htop/htop_3.0.5.deb"}
    /\ fs["out/h/htop/htop_3.0.5.deb"] = <<3>>

(* C19: every call of download_file adds exactly 1 to exactly one of       *)
(* downloaded_count, skipped_count and failed_count, no other step changes *)
(* a counter, so their sum is the number of file entries attempted so far  *)
(* and no counter ever decreases.                                          *)
C19_CounterAccounting ==
    /\ [](dl.downloaded_count + dl.skipped_count + dl.failed_count = chist.nfile)
    /\ [][ IF FileStep
           THEN Counts(dl') \in
                  {<<dl.downloaded_count + 1, dl.skipped_count, dl.failed_count>>,
                   <<dl.downloaded_count, dl.skipped_count + 1, dl.failed_count>>,
                   <<dl.downloaded_count, dl.skipped_count, dl.failed_count + 1>>}
           ELSE Counts(dl') = Counts(dl) ]_vars

\* the self-linking directory: its file was downloaded once, a later attempt
\* failed, the others were skipped
C19_Witness ==
    /\ cpc = "summary" /\ site = SiteLoop.pages
    /\ chist.nfile = 21
    /\ Counts(dl) = <<1, 19, 1>>

-----------------------------------------------------------------------------
(* C4: should_process_directory(d) is true iff start <= d <= end, each     *)
(* side applying only where its bound is present. d and the bounds are     *)
(* compared as the method's locals dirname, start and end hold them        *)
(* (trailing separators stripped), by lexicographic string comparison; a   *)
(* bound that is None or empty is absent; with no bound every name passes. *)
C4_RangeFilter ==
    (call.fn = "should_process_directory" /\ ret # <<>>) =>
        LET d == RStrip(call.dirname, "/")
        IN  ret[1] = ( /\ (Truthy(dl.start_dir) => StrLE(RStrip(dl.start_dir[1], "/"), d))
                       /\ (Truthy(dl.end_dir) => StrLE(d, RStrip(dl.end_dir[1], "/"))) )

\* both bounds given as "h/" .. "m": the bounds themselves pass, "n/" does not
C4_Witness ==
    /\ call.fn = "should_process_directory" /\ ret # <<>>
    /\ dl.start_dir = Some("h/") /\ dl.end_dir = Some("m")
    /\ call.dirname = "m/" /\ ret[1] = TRUE

(* C5: for a file URL R/p below the crawler's root R, get_local_path       *)
(* returns the output root joined with p.                                  *)
C5_PathMapping ==
    (call.fn = "get_local_path" /\ ret # <<>>) =>
        ret[1] = PathJoin(dl.output_dir, call.p)

====
